---- MODULE Spec2Model ----
(***************************************************************************)
(* Model of examples/mixtral_mcore/pretrain_megatron_mixtral.py:           *)
(* the batch constructor (get_batch), the loss reducer (loss_func), the    *)
(* training-step adapter (forward_step) and the dataset selector           *)
(* (train_valid_test_datasets_provider).                                   *)
(*                                                                         *)
(* Tensors of shape (batch, seq) are sequences of rows; a row is a         *)
(* sequence of integers.  Indices are 1-based here and 0-based in the      *)
(* source, position-id VALUES are 0-based in both.                         *)
(***************************************************************************)
EXTENDS Integers, Sequences, FiniteSets, TLC

\* ------------------------------------------------------------------ bounds
\* micro-batch size (rows of a raw batch)
BatchSize == 2
\* L: columns of tokens/labels; a raw batch has SeqLen + 1 columns
SeqLen == 3
\* token ids are drawn from Vocab; the pad token id is one of them
Vocab == {0, 1}

Rows(n) == [1..n -> Vocab]
\* every input_ids tensor of shape (BatchSize, SeqLen + 1)
RawBatches == [1..BatchSize -> Rows(SeqLen + 1)]

\* --------------------------------------------------------- tensor helpers
RECURSIVE SumSeq(_)
\* torch.sum over a 1-D tensor
SumSeq(s) == IF s = <<>> THEN 0 ELSE Head(s) + SumSeq(Tail(s))

RECURSIVE Flatten(_)
\* tensor.view(-1): row-major flattening of a 2-D tensor
Flatten(m) == IF m = <<>> THEN <<>> ELSE Head(m) \o Flatten(Tail(m))

\* tokens_[:, 1:]
DropFirstColumn(t) == [b \in 1..Len(t) |-> SubSeq(t[b], 2, Len(t[b]))]
\* tokens_[:, :-1]
DropLastColumn(t) == [b \in 1..Len(t) |-> SubSeq(t[b], 1, Len(t[b]) - 1)]
\* tensor.ne(value), element-wise
Ne(t, v) == [b \in 1..Len(t) |-> [i \in 1..Len(t[b]) |-> t[b][i] # v]]

\* ------------------------------------- get_ltor_masks_and_position_ids
\* loss_mask = ones; if eod_mask_loss: loss_mask[data == eod_token] = 0.0
LtorLossMask(data, eod_token, eod_mask_loss) ==
  [b \in 1..Len(data) |-> [i \in 1..Len(data[b]) |->
     IF eod_mask_loss /\ data[b][i] = eod_token THEN 0 ELSE 1]]

\* eod_index = position_ids[b, data[b] == eod_token]  (ascending, 1-based)
RECURSIVE EodIndex(_, _, _)
EodIndex(row, eod_token, from) ==
  IF from > Len(row) THEN <<>>
  ELSE (IF row[from] = eod_token THEN <<from>> ELSE <<>>)
       \o EodIndex(row, eod_token, from + 1)

\* the loop over eod_index:
\*   position_ids[b, (i + 1):] -= (i + 1 - prev_index); prev_index = i + 1
\* p is the 1-based index of the marker, so i + 1 = p.
RECURSIVE ResetLoop(_, _, _)
ResetLoop(pos, eods, prev_index) ==
  IF eods = <<>> THEN pos
  ELSE LET p == Head(eods)
           stepped == [q \in 1..Len(pos) |->
                         IF q >= p + 1 THEN pos[q] - (p - prev_index) ELSE pos[q]]
       IN ResetLoop(stepped, Tail(eods), p)

\* position_ids = arange(seq_length) expanded over the batch, then the
\* per-row reset loop when reset_position_ids is set
LtorPositionIds(data, eod_token, reset_position_ids) ==
  [b \in 1..Len(data) |->
     LET arange == [q \in 1..Len(data[b]) |-> q - 1]
     IN IF reset_position_ids
        THEN ResetLoop(arange, EodIndex(data[b], eod_token, 1), 0)
        ELSE arange]

\* attention_mask = tril(ones), with attention_mask[b, 0, (i+1):, :(i+1)] = 0
\* for every marker i when reset_attention_mask; returned as (mask < 0.5),
\* so TRUE means "may not attend".  Without reset_attention_mask there is a
\* single mask shared by the batch (att_mask_batch = 1).
LtorAttentionMask(data, eod_token, reset_attention_mask) ==
  [b \in 1..(IF reset_attention_mask THEN Len(data) ELSE 1) |->
     [q \in 1..Len(data[b]) |-> [k \in 1..Len(data[b]) |->
        \/ k > q
        \/ /\ reset_attention_mask
           /\ \E p \in 1..Len(data[b]) :
                data[b][p] = eod_token /\ q >= p + 1 /\ k <= p]]]

\* returns (attention_mask, loss_mask, position_ids)
get_ltor_masks_and_position_ids(data, eod_token, rpi, ram, eod_mask_loss) ==
  << LtorAttentionMask(data, eod_token, ram),
     LtorLossMask(data, eod_token, eod_mask_loss),
     LtorPositionIds(data, eod_token, rpi) >>

\* ------------------------------------------------------------- get_batch
\* a plausible slip: labels taken without the shift
BatchLabels_NoShift(tokens_) == DropLastColumn(tokens_)
\* labels = tokens_[:, 1:].contiguous()
BatchLabels(tokens_) == DropFirstColumn(tokens_)
\* tokens = tokens_[:, :-1].contiguous()
BatchTokens(tokens_) == DropLastColumn(tokens_)
\* a plausible slip: the mask taken over the label columns
BatchAttentionMask_FromLabels(tokens_, pad) == Ne(BatchLabels(tokens_), pad)
\* attention_mask = tokens.ne(tokenizer.pad_token_id)
BatchAttentionMask(tokens_, pad) == Ne(BatchTokens(tokens_), pad)
\* a plausible slip: the two reset flags passed in the wrong order
BatchLtor_FlagsSwapped(tokens_, pad, a) ==
  get_ltor_masks_and_position_ids(BatchTokens(tokens_), pad,
                                  a.reset_attention_mask,
                                  a.reset_position_ids, TRUE)
\* a plausible slip: the masks derived from the label columns
BatchLtor_FromLabels(tokens_, pad, a) ==
  get_ltor_masks_and_position_ids(BatchLabels(tokens_), pad,
                                  a.reset_position_ids,
                                  a.reset_attention_mask, TRUE)
\* the call of get_ltor_masks_and_position_ids in get_batch
BatchLtor(tokens_, pad, a) ==
  get_ltor_masks_and_position_ids(BatchTokens(tokens_), pad,
                                  a.reset_position_ids,
                                  a.reset_attention_mask, TRUE)

\* lines 73-86 of get_batch: the five-tuple built from the broadcast tensor
BuildBatch(tokens_, pad, a) ==
  [tokens         |-> BatchTokens(tokens_),
   labels         |-> BatchLabels(tokens_),
   loss_mask      |-> BatchLtor(tokens_, pad, a)[2],
   attention_mask |-> BatchAttentionMask(tokens_, pad),
   position_ids   |-> BatchLtor(tokens_, pad, a)[3]]

NoBatch == [tokens |-> <<>>, labels |-> <<>>, loss_mask |-> <<>>,
            attention_mask |-> <<>>, position_ids |-> <<>>]

\* -------------------------------------------------------------- loss_func
\* A float is an exact rational n/d in lowest terms, or inf, or nan; rounding
\* is not modelled.
RECURSIVE GCD(_, _)
GCD(a, b) == IF b = 0 THEN a ELSE GCD(b, a % b)

NaN == [kind |-> "nan", n |-> 0, d |-> 0]
Inf == [kind |-> "inf", n |-> 1, d |-> 0]
Rat(n, d) == [kind |-> "num", n |-> n \div GCD(n, d), d |-> d \div GCD(n, d)]

\* float division of two non-negative floats with integer values: x / 0 is
\* inf, 0 / 0 is nan, and no exception is raised
FDiv(n, d) == IF d = 0 THEN (IF n = 0 THEN NaN ELSE Inf) ELSE Rat(n, d)
\* float addition
FAdd(x, y) ==
  IF x.kind = "nan" \/ y.kind = "nan" THEN NaN
  ELSE IF x.kind = "inf" \/ y.kind = "inf" THEN Inf
  ELSE Rat(x.n * y.d + y.n * x.d, x.d * y.d)
\* a float divided by a positive integer
FDivInt(x, k) == IF x.kind = "num" THEN Rat(x.n, x.d * k) ELSE x

\* losses.view(-1) * loss_mask, element-wise
MaskedLosses(loss_mask, output_tensor) ==
  [p \in 1..Len(Flatten(output_tensor)) |->
     Flatten(output_tensor)[p] * Flatten(loss_mask)[p]]

\* a plausible slip: the plain mean, divided by the number of positions
LocalLoss_PlainMean(loss_mask, output_tensor) ==
  FDiv(SumSeq(MaskedLosses(loss_mask, output_tensor)), Len(Flatten(loss_mask)))
\* loss = torch.sum(losses.view(-1) * loss_mask) / loss_mask.sum()
LocalLoss(loss_mask, output_tensor) ==
  FDiv(SumSeq(MaskedLosses(loss_mask, output_tensor)), SumSeq(Flatten(loss_mask)))

\* average_losses_across_data_parallel_group: the one-element tensors of the
\* group's workers are summed by an all-reduce and divided by the world size
RECURSIVE AllReduceSum(_, _)
AllReduceSum(contrib, group) ==
  IF group = {} THEN <<Rat(0, 1)>>
  ELSE LET w == CHOOSE x \in group : TRUE
       IN <<FAdd(contrib[w][1], AllReduceSum(contrib, group \ {w})[1])>>
average_losses_across_data_parallel_group(contrib, group) ==
  <<FDivInt(AllReduceSum(contrib, group)[1], Cardinality(group))>>

\* a plausible slip: the averaged loss returned as the loss to differentiate
LossFuncResult_Averaged(loss, averaged_loss) ==
  [loss |-> averaged_loss[1], lm_loss |-> averaged_loss[1]]
\* return loss, {'lm loss': averaged_loss[0]}
LossFuncResult(loss, averaged_loss) ==
  [loss |-> loss, lm_loss |-> averaged_loss[1]]

NoResult == [loss |-> NaN, lm_loss |-> NaN]

\* lines 67-72 of get_batch
\* keys = ['input_ids', 'labels']
Keys == {"input_ids", "labels"}

\* what the dataset iterator yields: a mapping with both keys
RawData == {[input_ids |-> d, labels |-> d] : d \in RawBatches}

\* a data iterator is None or holds the elements it has yet to yield
NoneIterator == [is_none |-> TRUE, items |-> <<>>]
IteratorOver(items) == [is_none |-> FALSE, items |-> items]

\* if data_iterator is not None: data = next(data_iterator) else: data = None
\* (data is <<>> for None and <<d>> for the element d)
FetchData(it) ==
  IF ~it.is_none
  THEN [data |-> <<Head(it.items)>>, rest |-> [it EXCEPT !.items = Tail(it.items)]]
  ELSE [data |-> <<>>, rest |-> it]

\* tensor_parallel.broadcast_data(keys, data, datatype): every rank of the
\* group gets, for each key, the tensor the source rank holds under that key;
\* a receiver's own data argument is ignored.  The cast to int64 leaves the
\* int64 ids unchanged.
broadcast_data(keys, src_data) == [k \in keys |-> src_data[1][k]]

\* a plausible slip: the ids read from the rank's own element, not data_b
TokensOf_Local(data, data_b) ==
  IF data = <<>> THEN <<>> ELSE data[1].input_ids
\* tokens_ = data_b['input_ids'].long()
TokensOf(data, data_b) == data_b.input_ids

\* ------------------------------------------------------------------ state
VARIABLES
  args,          \* get_args(): reset_position_ids, reset_attention_mask
  pad_token_id,  \* get_tokenizer().pad_token_id
  \* ---- get_batch on one rank
  data_iterator, \* the rank's data iterator
  input_ids,     \* tokens_ of the latest get_batch call
  batch,         \* the five-tuple the latest get_batch call returned
  \* ---- get_batch across one model-sharding group
  tp_pc,         \* per rank: "off", "start", "broadcast", "received", "done"
  tp_iterator,   \* per rank: the data_iterator argument
  tp_data,       \* per rank: the local variable data
  tp_data_b,     \* per rank: the local variable data_b
  tp_tokens_,    \* per rank: the local variable tokens_
  tp_batch,      \* per rank: the returned five-tuple
  tp_yielded,    \* per rank: the elements its iterator has yielded
  \* ---- loss_func across one data-parallel group
  dp_group,      \* the workers of the group
  dp_pc,         \* per worker: "off", "call", "all_reduce", "reduced", "returned"
  dp_in,         \* per worker: the arguments loss_mask and output_tensor
  dp_loss,       \* per worker: the local variable loss
  dp_averaged,   \* per worker: the local variable averaged_loss
  dp_ret,        \* per worker: the returned pair
  \* ---- forward_step on one rank, and the trainer calling the closures
  st_iterator,   \* the data_iterator argument
  st_yielded,    \* the elements the iterator has yielded, one per step
  st_model_calls,\* the arguments of every call of the model, in order
  st_returned,   \* what every forward_step call returned, in order
  st_invoked,    \* the steps whose closure the trainer has called
  st_loss_runs,  \* every execution of loss_func: step, mask used, result
  \* ---- train_valid_test_datasets_provider
  fs,            \* the file system: what each path names
  ds_args,       \* get_args(): the dataset options
  ds_log         \* per provider call: its argument, the builder calls, the outcome

cfgVars == <<args, pad_token_id>>
gbVars == <<data_iterator, input_ids, batch>>
tpVars == <<tp_pc, tp_iterator, tp_data, tp_data_b, tp_tokens_, tp_batch, tp_yielded>>
dpVars == <<dp_group, dp_pc, dp_in, dp_loss, dp_averaged, dp_ret>>
stVars == <<st_iterator, st_yielded, st_model_calls, st_returned, st_invoked, st_loss_runs>>
dsVars == <<fs, ds_args, ds_log>>
vars == <<cfgVars, gbVars, tpVars, dpVars, stVars, dsVars>>

\* the run's configuration: fixed before the first step, read-only after
Configs == [reset_position_ids : BOOLEAN, reset_attention_mask : BOOLEAN]
\* both reset flags are store_true options: off unless given
DefaultArgs == [reset_position_ids |-> FALSE, reset_attention_mask |-> FALSE]

\* ranks of one model-sharding group; the first is the source of broadcasts
NumTP == 2
TPRanks == 0..(NumTP - 1)
SrcRank == 0

InitConfig ==
  /\ args \in Configs
  /\ pad_token_id \in Vocab

InitGetBatch ==
  /\ data_iterator \in {IteratorOver(<<d>>) : d \in RawData}
  /\ input_ids = <<>>
  /\ batch = NoBatch

IdleGetBatch ==
  /\ data_iterator = NoneIterator
  /\ input_ids = <<>>
  /\ batch = NoBatch

IdleTP ==
  /\ tp_pc = [r \in TPRanks |-> "off"]
  /\ tp_iterator = [r \in TPRanks |-> NoneIterator]
  /\ tp_data = [r \in TPRanks |-> <<>>]
  /\ tp_data_b = [r \in TPRanks |-> <<>>]
  /\ tp_tokens_ = [r \in TPRanks |-> <<>>]
  /\ tp_batch = [r \in TPRanks |-> NoBatch]
  /\ tp_yielded = [r \in TPRanks |-> <<>>]

\* workers of one data-parallel group
NumDP == 2
DPRanks == 0..(NumDP - 1)

NoInput == [loss_mask |-> <<>>, output_tensor |-> <<>>]

IdleDP ==
  /\ dp_group = {}
  /\ dp_pc = [w \in DPRanks |-> "off"]
  /\ dp_in = [w \in DPRanks |-> NoInput]
  /\ dp_loss = [w \in DPRanks |-> NaN]
  /\ dp_averaged = [w \in DPRanks |-> <<>>]
  /\ dp_ret = [w \in DPRanks |-> NoResult]

IdleStep ==
  /\ st_iterator = NoneIterator
  /\ st_yielded = <<>>
  /\ st_model_calls = <<>>
  /\ st_returned = <<>>
  /\ st_invoked = {}
  /\ st_loss_runs = <<>>

\* path names and what a path can name
Paths == {"corpus_a", "corpus_b"}
FileKinds == {"file", "dir", "absent"}
NoDatasetArgs ==
  [train_data_path |-> <<>>, dataset |-> "", max_padding_length |-> 0,
   split |-> "", seed |-> 0, mmap_warmup |-> FALSE]

IdleData ==
  /\ fs = [p \in Paths |-> "absent"]
  /\ ds_args = NoDatasetArgs
  /\ ds_log = <<>>

\* get_batch on a rank that owns the data iterator, in a sharding group of
\* that one rank: the broadcast hands the rank its own element back
get_batch ==
  /\ ~data_iterator.is_none
  /\ data_iterator.items # <<>>
  /\ LET f == FetchData(data_iterator)
         data_b == broadcast_data(Keys, f.data)
         tokens_ == TokensOf(f.data, data_b)
     IN /\ data_iterator' = f.rest
        /\ input_ids' = tokens_
        /\ batch' = BuildBatch(tokens_, pad_token_id, args)
  /\ UNCHANGED <<cfgVars, tpVars, dpVars, stVars, dsVars>>

Init == InitConfig /\ InitGetBatch /\ IdleTP /\ IdleDP /\ IdleStep /\ IdleData
Next == get_batch
Spec == Init /\ [][Next]_vars

\* ------------------------------------------- one model-sharding group
\* only the source rank is handed an iterator; the others are handed None
InitTP ==
  /\ tp_pc = [r \in TPRanks |-> "start"]
  /\ tp_iterator \in {[r \in TPRanks |->
                         IF r = SrcRank THEN IteratorOver(<<d>>) ELSE NoneIterator]
                      : d \in RawData}
  /\ tp_data = [r \in TPRanks |-> <<>>]
  /\ tp_data_b = [r \in TPRanks |-> <<>>]
  /\ tp_tokens_ = [r \in TPRanks |-> <<>>]
  /\ tp_batch = [r \in TPRanks |-> NoBatch]
  /\ tp_yielded = [r \in TPRanks |-> <<>>]

\* lines 68-71 on rank r, up to the entry into the broadcast
GetBatchFetch(r) ==
  /\ tp_pc[r] = "start"
  /\ LET f == FetchData(tp_iterator[r])
     IN /\ tp_data' = [tp_data EXCEPT ![r] = f.data]
        /\ tp_iterator' = [tp_iterator EXCEPT ![r] = f.rest]
        /\ tp_yielded' = [tp_yielded EXCEPT ![r] = @ \o f.data]
  /\ tp_pc' = [tp_pc EXCEPT ![r] = "broadcast"]
  /\ UNCHANGED <<cfgVars, gbVars, dpVars, stVars, dsVars, tp_data_b, tp_tokens_, tp_batch>>

\* line 72: the collective completes once every rank of the group is in it
GetBatchBroadcast ==
  /\ \A r \in TPRanks : tp_pc[r] = "broadcast"
  /\ tp_data_b' = [r \in TPRanks |-> broadcast_data(Keys, tp_data[SrcRank])]
  /\ tp_pc' = [r \in TPRanks |-> "received"]
  /\ UNCHANGED <<cfgVars, gbVars, dpVars, stVars, dsVars, tp_iterator, tp_data, tp_tokens_, tp_batch, tp_yielded>>

\* lines 73-86 on rank r
GetBatchReturn(r) ==
  /\ tp_pc[r] = "received"
  /\ LET tokens_ == TokensOf(tp_data[r], tp_data_b[r])
     IN /\ tp_tokens_' = [tp_tokens_ EXCEPT ![r] = tokens_]
        /\ tp_batch' = [tp_batch EXCEPT ![r] = BuildBatch(tokens_, pad_token_id, args)]
  /\ tp_pc' = [tp_pc EXCEPT ![r] = "done"]
  /\ UNCHANGED <<cfgVars, gbVars, dpVars, stVars, dsVars, tp_iterator, tp_data, tp_data_b, tp_yielded>>

\* the configuration plays no part in lines 67-73; one is enough
InitBroadcast ==
  /\ args = DefaultArgs
  /\ pad_token_id = 0
  /\ IdleGetBatch
  /\ InitTP
  /\ IdleDP
  /\ IdleStep
  /\ IdleData
NextBroadcast ==
  \/ \E r \in TPRanks : GetBatchFetch(r)
  \/ GetBatchBroadcast
  \/ \E r \in TPRanks : GetBatchReturn(r)
SpecBroadcast == InitBroadcast /\ [][NextBroadcast]_vars

\* ------------------------------------------- one data-parallel group
\* largest offset of the per-token loss values
MaxLoss == 1
\* per-token losses of shape (BatchSize, SeqLen): k+1, k+2, ... in row-major
\* order, so that every position carries a different loss
Ramp(k) == [b \in 1..BatchSize |-> [i \in 1..SeqLen |-> k + (b - 1) * SeqLen + i]]
LossTensors == {Ramp(k) : k \in 0..MaxLoss}
\* every 0/1 loss mask of shape (BatchSize, SeqLen)
Masks == [1..BatchSize -> [1..SeqLen -> {0, 1}]]
\* the first k positions in row-major order are supervised
PrefixMask(k) ==
  [b \in 1..BatchSize |-> [i \in 1..SeqLen |->
     IF (b - 1) * SeqLen + i <= k THEN 1 ELSE 0]]
\* every second position is supervised, starting at the first or the second
StrideMask(o) ==
  [b \in 1..BatchSize |-> [i \in 1..SeqLen |-> ((b - 1) * SeqLen + i + o) % 2]]
\* losses [1,2,3,4] with mask [1,0,1,0] (masked mean 2) and with mask
\* [0,0,0,1] (masked mean 4)
ExampleInputs ==
  {[loss_mask |-> << <<1, 0, 1, 0>> >>, output_tensor |-> << <<1, 2, 3, 4>> >>],
   [loss_mask |-> << <<0, 0, 0, 1>> >>, output_tensor |-> << <<1, 2, 3, 4>> >>]}

\* the inputs of a lone worker: every mask with every loss tensor
LoneInputs ==
  [loss_mask : Masks, output_tensor : LossTensors] \cup ExampleInputs
\* the inputs of the workers of a group
GroupInputs ==
  {[loss_mask |-> m, output_tensor |-> Ramp(0)] :
     m \in {PrefixMask(k) : k \in 0..(BatchSize * SeqLen)}
           \cup {StrideMask(o) : o \in 0..1}}
  \cup ExampleInputs

InitDP(group, inputs) ==
  /\ dp_group = group
  /\ dp_pc = [w \in DPRanks |-> IF w \in group THEN "call" ELSE "off"]
  /\ dp_in \in {[w \in DPRanks |-> IF w \in group THEN f[w] ELSE NoInput] :
                  f \in [group -> inputs]}
  /\ dp_loss = [w \in DPRanks |-> NaN]
  /\ dp_averaged = [w \in DPRanks |-> <<>>]
  /\ dp_ret = [w \in DPRanks |-> NoResult]

\* lines 89-91 on worker w, up to the entry into the all-reduce
LossFuncLocal(w) ==
  /\ dp_pc[w] = "call"
  /\ dp_loss' = [dp_loss EXCEPT ![w] =
                   LocalLoss(dp_in[w].loss_mask, dp_in[w].output_tensor)]
  /\ dp_pc' = [dp_pc EXCEPT ![w] = "all_reduce"]
  /\ UNCHANGED <<cfgVars, gbVars, tpVars, stVars, dsVars, dp_group, dp_in, dp_averaged, dp_ret>>

\* line 94: the all-reduce completes once every worker of the group is in it
LossFuncAllReduce ==
  /\ dp_group # {}
  /\ \A w \in dp_group : dp_pc[w] = "all_reduce"
  /\ dp_averaged' =
       [w \in DPRanks |->
          IF w \in dp_group
          THEN average_losses_across_data_parallel_group(
                 [v \in dp_group |-> <<dp_loss[v]>>], dp_group)
          ELSE dp_averaged[w]]
  /\ dp_pc' = [w \in DPRanks |-> IF w \in dp_group THEN "reduced" ELSE dp_pc[w]]
  /\ UNCHANGED <<cfgVars, gbVars, tpVars, stVars, dsVars, dp_group, dp_in, dp_loss, dp_ret>>

\* line 96 on worker w
LossFuncReturn(w) ==
  /\ dp_pc[w] = "reduced"
  /\ dp_ret' = [dp_ret EXCEPT ![w] = LossFuncResult(dp_loss[w], dp_averaged[w])]
  /\ dp_pc' = [dp_pc EXCEPT ![w] = "returned"]
  /\ UNCHANGED <<cfgVars, gbVars, tpVars, stVars, dsVars, dp_group, dp_in, dp_loss, dp_averaged>>

\* a lone worker with any input, or a whole group
InitLoss ==
  /\ args = DefaultArgs
  /\ pad_token_id = 0
  /\ IdleGetBatch
  /\ IdleTP
  /\ IdleStep
  /\ IdleData
  /\ \/ InitDP({0}, LoneInputs)
     \/ InitDP(DPRanks, GroupInputs)
NextLoss ==
  \/ \E w \in DPRanks : LossFuncLocal(w)
  \/ LossFuncAllReduce
  \/ \E w \in DPRanks : LossFuncReturn(w)
SpecLoss == InitLoss /\ [][NextLoss]_vars

\* ------------------------------------------------------- forward_step
\* forward_step calls per run
MaxSteps == 2
\* a row of SeqLen + 1 tokens: 1 everywhere but for a 0 at index k (no 0 when
\* k is 0)
MarkedRow(k) == [i \in 1..(SeqLen + 1) |-> IF i = k THEN 0 ELSE 1]
\* the batches the step iterator yields: row b carries its 0 at index k + b - 1,
\* wrapping around
StepBatch(k) == [b \in 1..BatchSize |-> MarkedRow((k + b - 1) % (SeqLen + 2))]
StepData == {[input_ids |-> StepBatch(k), labels |-> StepBatch(k)] : k \in 0..(SeqLen + 1)}

\* the model: a fixed function from its inputs to per-token losses
ModelForward(call) ==
  [b \in 1..Len(call.tokens) |-> [i \in 1..Len(call.tokens[b]) |->
     1 + call.labels[b][i] + call.position_ids[b][i]]]

\* model(tokens, position_ids, attention_mask, labels=labels): the three
\* positional parameters of the model and the keyword labels
ModelCallArgs(b) ==
  [tokens |-> b.tokens, position_ids |-> b.position_ids,
   attention_mask |-> b.attention_mask, labels |-> b.labels]

\* partial(loss_func, loss_mask): the function with its first argument bound
Partial(loss_mask) == [func |-> "loss_func", loss_mask |-> loss_mask]

\* a plausible slip: the closure reads the mask of the latest step when it
\* runs (a shared variable) instead of the one bound when it was made
ClosureMask_Latest(returned, k) == returned[Len(returned)].closure.loss_mask
\* the loss_mask the closure of step k passes to loss_func
ClosureMask(returned, k) == returned[k].closure.loss_mask

InitStep ==
  /\ InitConfig
  /\ IdleGetBatch
  /\ IdleTP
  /\ IdleDP
  /\ IdleData
  /\ st_iterator \in {IteratorOver(items) : items \in [1..MaxSteps -> StepData]}
  /\ st_yielded = <<>>
  /\ st_model_calls = <<>>
  /\ st_returned = <<>>
  /\ st_invoked = {}
  /\ st_loss_runs = <<>>

\* one call of forward_step on a rank that owns the iterator
forward_step ==
  /\ ~st_iterator.is_none
  /\ st_iterator.items # <<>>
  /\ LET f == FetchData(st_iterator)
         data_b == broadcast_data(Keys, f.data)
         b == BuildBatch(TokensOf(f.data, data_b), pad_token_id, args)
         call == ModelCallArgs(b)
         output_tensor == ModelForward(call)
     IN /\ st_iterator' = f.rest
        /\ st_yielded' = st_yielded \o f.data
        /\ st_model_calls' = Append(st_model_calls, call)
        /\ st_returned' = Append(st_returned,
                                 [output_tensor |-> output_tensor,
                                  closure |-> Partial(b.loss_mask)])
  /\ UNCHANGED <<cfgVars, gbVars, tpVars, dpVars, dsVars, st_invoked, st_loss_runs>>

\* the trainer calls the closure a forward_step call returned, in any order,
\* with that call's output tensor; the rank is alone in its data-parallel
\* group
InvokeClosure(k) ==
  /\ k \in 1..Len(st_returned)
  /\ k \notin st_invoked
  /\ LET mask == ClosureMask(st_returned, k)
         loss == LocalLoss(mask, st_returned[k].output_tensor)
         averaged_loss == average_losses_across_data_parallel_group(
                            [w \in {0} |-> <<loss>>], {0})
     IN st_loss_runs' = Append(st_loss_runs,
                               [step |-> k, loss_mask |-> mask,
                                ret |-> LossFuncResult(loss, averaged_loss)])
  /\ st_invoked' = st_invoked \cup {k}
  /\ UNCHANGED <<cfgVars, gbVars, tpVars, dpVars, dsVars, st_iterator, st_yielded,
                 st_model_calls, st_returned>>

NextStep ==
  \/ forward_step
  \/ \E k \in 1..MaxSteps : InvokeClosure(k)
SpecStep == InitStep /\ [][NextStep]_vars

\* ------------------------------- train_valid_test_datasets_provider
\* entries of the data-path list
MaxPaths == 2
\* provider calls per run
MaxCalls == 2
\* the requested (train, valid, test) sample counts
SampleCounts == {<<100, 10, 1>>, <<8, 4, 2>>}

RECURSIVE SeqsUpTo(_, _)
\* the sequences over S of length at most n
SeqsUpTo(S, n) ==
  IF n = 0 THEN {<<>>}
  ELSE SeqsUpTo(S, n - 1) \cup [1..n -> S]

DatasetArgs ==
  [train_data_path : SeqsUpTo(Paths, MaxPaths),
   dataset : {"LLama-Pretrain-Raw", "LLama-Pretrain-Idxmap"},
   max_padding_length : {128},
   split : {"949,50,1"},
   seed : {1234, 42},
   mmap_warmup : BOOLEAN]

\* os.path.isfile: true for an existing regular file only
IsFile(files, path) == files[path] = "file"

\* build_pretrain_dataset_from_original(args.dataset)
OriginalCall(a) ==
  [builder |-> "build_pretrain_dataset_from_original",
   positional |-> <<a.dataset>>,
   keywords |-> [k \in {} |-> 0]]

\* a plausible slip: the negation of the warm-up flag is lost
SkipWarmup_NotNegated(a) == a.mmap_warmup
\* skip_warmup=(not args.mmap_warmup)
SkipWarmup(a) == ~a.mmap_warmup

\* build_pretrain_dataset_from_idxmap(data_prefix=..., ..., skip_warmup=...)
IdxmapCall(a, train_val_test_num_samples) ==
  [builder |-> "build_pretrain_dataset_from_idxmap",
   positional |-> <<>>,
   keywords |-> [data_prefix |-> a.train_data_path,
                 max_padding_length |-> a.max_padding_length,
                 dataset_type |-> a.dataset,
                 splits_string |-> a.split,
                 train_valid_test_num_samples |-> train_val_test_num_samples,
                 seed |-> a.seed,
                 skip_warmup |-> SkipWarmup(a)]]

\* the builder calls one provider call makes, and how it ends:
\* args.train_data_path[0] raises when the list has no first entry
ProviderRun(files, a, train_val_test_num_samples) ==
  IF a.train_data_path = <<>>
  THEN [samples |-> train_val_test_num_samples, calls |-> <<>>, outcome |-> "raised"]
  ELSE IF IsFile(files, a.train_data_path[1])
  THEN [samples |-> train_val_test_num_samples, calls |-> <<OriginalCall(a)>>,
        outcome |-> "returned"]
  ELSE [samples |-> train_val_test_num_samples,
        calls |-> <<IdxmapCall(a, train_val_test_num_samples)>>,
        outcome |-> "returned"]

InitData ==
  /\ args = DefaultArgs
  /\ pad_token_id = 0
  /\ IdleGetBatch
  /\ IdleTP
  /\ IdleDP
  /\ IdleStep
  /\ fs \in [Paths -> FileKinds]
  /\ ds_args \in DatasetArgs
  /\ ds_log = <<>>

train_valid_test_datasets_provider ==
  /\ Len(ds_log) < MaxCalls
  /\ \E train_val_test_num_samples \in SampleCounts :
       ds_log' = Append(ds_log, ProviderRun(fs, ds_args, train_val_test_num_samples))
  /\ UNCHANGED <<cfgVars, gbVars, tpVars, dpVars, stVars, fs, ds_args>>

NextData == train_valid_test_datasets_provider
SpecData == InitData /\ [][NextData]_vars

\* ---------------------------------------------------------------- claims
Called == input_ids # <<>>

\* C1: tokens are input_ids without the last column and labels are input_ids
\* without the first column: tokens[b][i] = input_ids[b][i] and
\* labels[b][i] = input_ids[b][i+1] for every b and i, both of shape
\* (batch, L).
C1_CausalShift ==
  Called =>
    /\ Len(batch.tokens) = BatchSize /\ Len(batch.labels) = BatchSize
    /\ \A b \in 1..BatchSize :
         /\ Len(input_ids[b]) = SeqLen + 1
         /\ Len(batch.tokens[b]) = SeqLen /\ Len(batch.labels[b]) = SeqLen
         /\ \A i \in 1..SeqLen :
              /\ batch.tokens[b][i] = input_ids[b][i]
              /\ batch.labels[b][i] = input_ids[b][i + 1]

\* a batch in which the shift shows: some label differs from its input token
C1_Witness ==
  /\ Called
  /\ \E b \in 1..BatchSize, i \in 1..SeqLen :
       batch.labels[b][i] # batch.tokens[b][i]

\* C4: attention_mask[b][i] is true exactly when tokens[b][i] (the input
\* column i of input_ids) differs from pad_token_id, whatever the values of
\* reset_position_ids and reset_attention_mask.
C4_AttentionMask ==
  Called =>
    /\ Len(batch.attention_mask) = BatchSize
    /\ \A b \in 1..BatchSize :
         /\ Len(batch.attention_mask[b]) = SeqLen
         /\ \A i \in 1..SeqLen :
              batch.attention_mask[b][i] = (input_ids[b][i] # pad_token_id)

\* both reset flags set, a pad inside a row, and a position whose input is
\* pad while its label is not (so tokens and labels give different masks)
C4_Witness ==
  /\ Called
  /\ args.reset_position_ids /\ args.reset_attention_mask
  /\ \E b \in 1..BatchSize, i \in 1..SeqLen :
       /\ batch.tokens[b][i] = pad_token_id
       /\ batch.labels[b][i] # pad_token_id
       /\ ~batch.attention_mask[b][i]

\* C8: with reset_position_ids, the position id right after an
\* end-of-document marker (the pad token id, as get_batch passes it) is 0;
\* without it, every row's position ids are 0..seq_len-1 in order.
C8_PositionIds ==
  Called =>
    \A b \in 1..BatchSize :
      /\ Len(batch.position_ids[b]) = SeqLen
      /\ args.reset_position_ids =>
           \A k \in 1..(SeqLen - 1) :
             batch.tokens[b][k] = pad_token_id => batch.position_ids[b][k + 1] = 0
      /\ ~args.reset_position_ids =>
           \A q \in 1..SeqLen : batch.position_ids[b][q] = q - 1

\* the flag is set and a marker in mid-row made the ids restart
C8_Witness ==
  /\ Called
  /\ args.reset_position_ids
  /\ \E b \in 1..BatchSize, k \in 2..(SeqLen - 1) :
       /\ batch.tokens[b][k] = pad_token_id
       /\ batch.tokens[b][k - 1] # pad_token_id
       /\ batch.position_ids[b][k] = k - 1
       /\ batch.position_ids[b][k + 1] = 0

\* C10: loss_mask[b][i] is 0 exactly when tokens[b][i] is the pad token and 1
\* otherwise, so it agrees with attention_mask everywhere, and a non-pad
\* input whose label is pad still counts as a supervision target.
C10_LossMask ==
  Called =>
    \A b \in 1..BatchSize :
      /\ Len(batch.loss_mask[b]) = SeqLen
      /\ \A i \in 1..SeqLen :
           /\ batch.loss_mask[b][i] = (IF input_ids[b][i] = pad_token_id THEN 0 ELSE 1)
           /\ (batch.loss_mask[b][i] = 1) = batch.attention_mask[b][i]

\* a non-pad input with a pad label, counted in the loss
C10_Witness ==
  /\ Called
  /\ \E b \in 1..BatchSize, i \in 1..SeqLen :
       /\ batch.tokens[b][i] # pad_token_id
       /\ batch.labels[b][i] = pad_token_id
       /\ batch.loss_mask[b][i] = 1

\* C6: after the broadcast every rank of the group holds the input_ids the
\* source rank's iterator yielded, ranks called with None included; a rank
\* called with None draws nothing from any iterator and the source rank draws
\* exactly one element.
C6_BroadcastIdentical ==
  \A r \in TPRanks :
    /\ tp_pc[r] \in {"received", "done"} =>
         /\ Len(tp_yielded[SrcRank]) = 1
         /\ tp_data_b[r].input_ids = tp_yielded[SrcRank][1].input_ids
         /\ tp_data_b[r] = tp_data_b[SrcRank]
    /\ tp_pc[r] = "done" =>
         /\ tp_tokens_[r] = tp_yielded[SrcRank][1].input_ids
         /\ tp_batch[r] = tp_batch[SrcRank] \/ tp_pc[SrcRank] # "done"
    /\ (tp_pc[r] # "start" /\ r # SrcRank) =>
         /\ tp_iterator[r] = NoneIterator
         /\ tp_yielded[r] = <<>>
    /\ (tp_pc[r] \notin {"off", "start"} /\ r = SrcRank) =>
         /\ Len(tp_yielded[r]) = 1
         /\ tp_iterator[r].items = <<>>

\* every rank has returned, one of them called with None, holding the ids
\* the source drew
C6_Witness ==
  /\ \A r \in TPRanks : tp_pc[r] = "done"
  /\ \E r \in TPRanks :
       /\ r # SrcRank
       /\ tp_iterator[r].is_none
       /\ tp_tokens_[r] # <<>>
       /\ tp_tokens_[r] = tp_yielded[SrcRank][1].input_ids

\* the supervised positions of worker w, in row-major order
Supervised(w) ==
  {p \in 1..Len(Flatten(dp_in[w].loss_mask)) : Flatten(dp_in[w].loss_mask)[p] = 1}
RECURSIVE SumOver(_, _)
SumOver(f, S) ==
  IF S = {} THEN 0
  ELSE LET p == CHOOSE x \in S : TRUE IN f[p] + SumOver(f, S \ {p})
\* the sum of the losses at the supervised positions of worker w
SupervisedSum(w) == SumOver(Flatten(dp_in[w].output_tensor), Supervised(w))
\* the float x is the fraction n / d
IsFraction(x, n, d) == x.kind = "num" /\ x.n * d = x.d * n

\* C2: with sum(loss_mask) > 0 the first value loss_func returns is the sum
\* of the losses at the positions whose mask is 1 divided by the number of
\* those positions; positions with mask 0 contribute nothing.
C2_MaskedMean ==
  \A w \in dp_group :
    (dp_pc[w] = "returned" /\ Supervised(w) # {}) =>
      IsFraction(dp_ret[w].loss, SupervisedSum(w), Cardinality(Supervised(w)))

\* losses [1,2,3,4] with mask [1,0,1,0] returned 2
C2_Witness ==
  \E w \in dp_group :
    /\ dp_pc[w] = "returned"
    /\ dp_in[w].output_tensor = << <<1, 2, 3, 4>> >>
    /\ dp_in[w].loss_mask = << <<1, 0, 1, 0>> >>
    /\ dp_ret[w].loss = Rat(2, 1)

\* C3: a call of loss_func with a loss_mask summing to 0 raises instead of
\* returning: no worker ever returns from such a call.
C3_ZeroMaskRaises ==
  \A w \in dp_group :
    dp_pc[w] = "returned" => Supervised(w) # {}

\* the mean of the fractions num[w] / den[w] over the workers in S, as an
\* unreduced pair <<numerator, denominator>>
RECURSIVE FractionSum(_, _, _)
FractionSum(num, den, S) ==
  IF S = {} THEN <<0, 1>>
  ELSE LET w == CHOOSE x \in S : TRUE
           r == FractionSum(num, den, S \ {w})
       IN <<num[w] * r[2] + r[1] * den[w], den[w] * r[2]>>
GroupMean ==
  LET s == FractionSum([w \in dp_group |-> SupervisedSum(w)],
                       [w \in dp_group |-> Cardinality(Supervised(w))], dp_group)
  IN <<s[1], s[2] * Cardinality(dp_group)>>

\* C5: the value logged under 'lm loss' is the unweighted mean of the local
\* masked means of the group's workers (not a number when one of them is),
\* while the first value each worker returns is its own local masked mean.
C5_LoggedMean ==
  \A w \in dp_group :
    dp_pc[w] = "returned" =>
      /\ IF \E v \in dp_group : Supervised(v) = {}
         THEN dp_ret[w].lm_loss = NaN
         ELSE IsFraction(dp_ret[w].lm_loss, GroupMean[1], GroupMean[2])
      /\ IF Supervised(w) = {}
         THEN dp_ret[w].loss = NaN
         ELSE IsFraction(dp_ret[w].loss, SupervisedSum(w), Cardinality(Supervised(w)))

\* two workers with local means 2 and 4 over different numbers of supervised
\* positions both logged 3 and returned their own means
C5_Witness ==
  /\ Cardinality(dp_group) >= 2
  /\ \A w \in dp_group : dp_pc[w] = "returned"
  /\ \E v, w \in dp_group :
       /\ dp_ret[v].loss = Rat(2, 1) /\ dp_ret[w].loss = Rat(4, 1)
       /\ Cardinality(Supervised(v)) # Cardinality(Supervised(w))
       /\ dp_ret[v].lm_loss = Rat(3, 1) /\ dp_ret[w].lm_loss = Rat(3, 1)

\* the batch of step k, from the element the iterator yielded at that step
StepBatchOf(k) == BuildBatch(st_yielded[k].input_ids, pad_token_id, args)

\* C9: every forward_step call draws one element, calls the model once with
\* the tokens, position_ids, attention_mask and labels of that batch, runs
\* loss_func not at all and returns a closure bound to that batch's
\* loss_mask; a closure called later, in whatever order, computes its loss
\* with the loss_mask of its own step.
C9_StepOrder ==
  /\ Len(st_yielded) = Len(st_returned)
  /\ Len(st_model_calls) = Len(st_returned)
  /\ ~st_iterator.is_none =>
       Len(st_iterator.items) + Len(st_returned) = MaxSteps
  /\ Len(st_loss_runs) = Cardinality(st_invoked)
  /\ \A k \in 1..Len(st_returned) :
       /\ st_model_calls[k].tokens = StepBatchOf(k).tokens
       /\ st_model_calls[k].position_ids = StepBatchOf(k).position_ids
       /\ st_model_calls[k].attention_mask = StepBatchOf(k).attention_mask
       /\ st_model_calls[k].labels = StepBatchOf(k).labels
       /\ st_returned[k].closure.loss_mask = StepBatchOf(k).loss_mask
  /\ \A j \in 1..Len(st_loss_runs) :
       st_loss_runs[j].loss_mask = StepBatchOf(st_loss_runs[j].step).loss_mask

\* two steps with different loss masks, the closure of the first called after
\* the second step was taken
C9_Witness ==
  /\ Len(st_returned) >= 2
  /\ st_returned[1].closure.loss_mask # st_returned[2].closure.loss_mask
  /\ Len(st_loss_runs) >= 2
  /\ st_loss_runs[1].step = 2
  /\ st_loss_runs[2].step = 1

\* C7: the provider looks at the first path entry only.  If it is a regular
\* file, the original-format builder is called once with the dataset type
\* alone and the indexed builder is not called; otherwise the indexed builder
\* is called once with all path entries, the max padding length, the dataset
\* type, the split string, the requested sample counts, the seed and
\* skip_warmup = not mmap_warmup, and the original-format builder is not
\* called.  Every call under one configuration selects the same builder.
C7_DatasetSelection ==
  ds_args.train_data_path # <<>> =>
    \A j \in 1..Len(ds_log) :
      /\ ds_log[j].outcome = "returned"
      /\ Len(ds_log[j].calls) = 1
      /\ LET c == ds_log[j].calls[1]
         IN IF fs[ds_args.train_data_path[1]] = "file"
            THEN /\ c.builder = "build_pretrain_dataset_from_original"
                 /\ c.positional = <<ds_args.dataset>>
                 /\ DOMAIN c.keywords = {}
            ELSE /\ c.builder = "build_pretrain_dataset_from_idxmap"
                 /\ c.positional = <<>>
                 /\ DOMAIN c.keywords =
                      {"data_prefix", "max_padding_length", "dataset_type",
                       "splits_string", "train_valid_test_num_samples", "seed",
                       "skip_warmup"}
                 /\ c.keywords.data_prefix = ds_args.train_data_path
                 /\ c.keywords.max_padding_length = ds_args.max_padding_length
                 /\ c.keywords.dataset_type = ds_args.dataset
                 /\ c.keywords.splits_string = ds_args.split
                 /\ c.keywords.train_valid_test_num_samples = ds_log[j].samples
                 /\ c.keywords.seed = ds_args.seed
                 /\ c.keywords.skip_warmup = (ds_args.mmap_warmup = FALSE)
      /\ \A i \in 1..Len(ds_log) :
           ds_log[i].calls[1].builder = ds_log[j].calls[1].builder

\* two calls with different sample counts under a path list whose first entry
\* is no regular file and whose second entry is one: the indexed builder both
\* times, with warm-up skipped
C7_Witness ==
  /\ Len(ds_log) >= 2
  /\ Len(ds_args.train_data_path) >= 2
  /\ fs[ds_args.train_data_path[1]] # "file"
  /\ fs[ds_args.train_data_path[2]] = "file"
  /\ ds_log[1].samples # ds_log[2].samples
  /\ ds_log[1].calls[1].builder = "build_pretrain_dataset_from_idxmap"
  /\ ds_log[2].calls[1].builder = "build_pretrain_dataset_from_idxmap"
  /\ ds_log[1].calls[1].keywords.skip_warmup

====
